---- MODULE Spec2Model ----
(***************************************************************************)
(* A model of the delayed channel of src/src/lib.rs: a Sender that stamps  *)
(* every message with a departure time computed from its bandwidth, an     *)
(* unbounded FIFO channel of (Instant, MessageData) pairs, and a Receiver  *)
(* that adds its latency to the stamp and sleeps until that instant.       *)
(*                                                                         *)
(* Time is counted in clock ticks, the resolution of Instant and Duration  *)
(* (one nanosecond in the program, 1/TicksPerSec of a second here).        *)
(* An Option is a sequence: <<>> is None and <<v>> is Some(v).             *)
(***************************************************************************)
EXTENDS Integers, Sequences, FiniteSets

\* ------------------------------------------------------------------ bounds

\* Clock ticks per second: the resolution of Duration.
TicksPerSec == 10

\* The clock stops advancing at MaxTime.
MaxTime == 3

\* The clock of a burst (BurstSpec) stops advancing at BurstMaxTime.
BurstMaxTime == 12

\* Number of send calls in one behaviour.
MaxSends == 2

\* Message lengths (bytes), bandwidths (bytes/sec), latencies (ticks) drawn
\* by the environment.
Lens == {0, 3}

Bandwidths == {0, 20, 40}

Latencies == {1}

\* What a burst draws from: the sizes, bandwidths and latencies of the two
\* scenarios of the specification (1000 bytes/sec, 100 ms, 500 and 1000
\* bytes) next to a size and a bandwidth whose quotient is no whole tick.
BurstLens == {3, 500, 1000}

BurstBandwidths == {20, 1000}

BurstLatencies == {0, TicksPerSec \div 10}

\* The two ways Duration::from_secs_f64 has turned a fraction of a tick into
\* a whole one, depending on the toolchain the crate is built with.
Roundings == {"trunc", "nearest"}

\* ----------------------------------------------------------------- helpers

None == <<>>

Some(v) == <<v>>

\* The earlier of two instants.
MinInstant(a, b) == IF a <= b THEN a ELSE b

\* Instant::max, lib.rs:43.
Max(a, b) == IF a >= b THEN a ELSE b

\* Duration::from_secs_f64(num / den), den > 0, in ticks, lib.rs:39.
DurationFromSecs(num, den, mode) ==
    LET n == num * TicksPerSec
        q == n \div den
        r == n % den
    IN  IF mode = "trunc" THEN q
        ELSE IF 2 * r > den THEN q + 1
        ELSE IF 2 * r = den /\ q % 2 = 1 THEN q + 1
        ELSE q

\* len / 0 is infinite or NaN, and from_secs_f64 panics on both, lib.rs:39.
DelayPanics(bw) == bw # None /\ bw[1] = 0

\* A delay charged for a fixed size, whatever the message holds.
TransmissionDelayFixedSize(bw, len, mode) ==
    IF bw = None THEN 0 ELSE DurationFromSecs(3, bw[1], mode)

\* The delay of lib.rs:37-40: none without a bandwidth, else the length of the
\* message, msg.len(), over the bandwidth, as a Duration.
TransmissionDelay(bw, len, mode) ==
    IF bw = None THEN 0 ELSE DurationFromSecs(len, bw[1], mode)

\* A departure time that counts from free even when the clock has passed it,
\* so that idle time is banked.
DepartureTimeWithCredit(t, free, delay) == free + delay

\* A departure time that forgets the link is busy until free.
DepartureTimeUnqueued(t, free, delay) == t + delay

\* lib.rs:43.
DepartureTime(t, free, delay) == Max(t, free) + delay

\* A channel that puts the newest envelope first.
ChanSendFront(q, e) == <<e>> \o q

\* channel::Sender::send on an unbounded channel, lib.rs:44.
ChanSend(q, e) == Append(q, e)

\* A channel that hands out its newest element.
ChanRecvNewest(q) == q[Len(q)]

\* channel::Receiver::recv yields the oldest element, lib.rs:72.
ChanRecv(q) == Head(q)

\* A channel that fails recv as soon as its Sender is gone.
RecvFailsOnceClosed(q, alive) == ~alive

\* channel::Receiver::recv fails once the channel is closed and drained, the
\* error the ? of lib.rs:72 returns.
RecvFails(q, alive) == q = <<>> /\ ~alive

\* A send that never records the departure it has scheduled.
NextTimeForgotten(ok, old, departure) == old

\* A failed send that rewinds next_time to the epoch.
NextTimeRewound(ok, old, departure) == IF ok THEN departure ELSE 0

\* lib.rs:45, reached only when the enqueue succeeded (the ? of line 44).
NextTimeAfterSend(ok, old, departure) == IF ok THEN departure ELSE old

\* An arrival time that leaves the latency out.
ArrivalTimeNoLatency(time, lat) == time

\* lib.rs:73-76.
ArrivalTime(time, lat) == IF lat = None THEN time ELSE time + lat[1]

\* A timer that may fire one tick early.
TimerReadyEarly(when, t) == t + 1 >= when

\* Timer::at(when) is ready once the clock has reached when, lib.rs:77.
TimerReady(when, t) == t >= when

\* ------------------------------------------------------------------- state

VARIABLES
    now,          \* the clock, Instant::now()
    rounding,     \* the rounding of from_secs_f64 in this build
    bandwidth,    \* Sender.bandwidth : Option<Bandwidth>
    next_time,    \* Sender.next_time
    senderAlive,  \* the Sender has not been dropped
    chan,         \* the channel's queue of envelopes [time, msg, tag]
    latency,      \* Receiver.latency : Option<Duration>
    receiverAlive,\* the Receiver has not been dropped
    rpc,          \* the in-flight recv: "idle", "chan" (line 72), "timer" (line 77)
    pending,      \* the envelope a recv holds while it sleeps on its timer
    rpc2,         \* a second recv in flight on the same Receiver, as rpc
    pending2,     \* the envelope that second recv holds, as pending
    sendLog,      \* history: [res, len] of every send call, in call order
    delivered,    \* history: ids of the payloads returned by recv, in order
    lastRecv,     \* history: the last completed recv: its result, whether it
                  \* slept on the timer, whether the Sender was gone
    dropped       \* history: ids of the payloads lost to a cancelled recv

vars == <<now, rounding, bandwidth, next_time, senderAlive, chan, latency,
          receiverAlive, rpc, pending, rpc2, pending2, sendLog,
          delivered, lastRecv, dropped>>

senderVars == <<bandwidth, next_time, senderAlive>>

sendHist == <<sendLog>>

recvVars == <<latency, receiverAlive, rpc, pending, rpc2, pending2,
              delivered, lastRecv, dropped>>

firstCall == <<rpc, pending>>

secondCall == <<rpc2, pending2>>

NoRecv == [res |-> "none", waited |-> FALSE, closed |-> FALSE]

\* A channel() whose Sender is born busy for one more tick.
InitBusy ==
    /\ now = 0
    /\ rounding \in Roundings
    /\ bandwidth = None
    /\ next_time = now + 1
    /\ senderAlive = TRUE
    /\ chan = <<>>
    /\ latency = None
    /\ receiverAlive = TRUE
    /\ rpc = "idle"
    /\ pending = <<>>
    /\ rpc2 = "idle"
    /\ pending2 = <<>>
    /\ sendLog = <<>>
    /\ delivered = <<>>
    /\ lastRecv = NoRecv
    /\ dropped = <<>>

\* channel(), lib.rs:102-115.
Init ==
    /\ now = 0
    /\ rounding \in Roundings
    /\ bandwidth = None
    /\ next_time = now
    /\ senderAlive = TRUE
    /\ chan = <<>>
    /\ latency = None
    /\ receiverAlive = TRUE
    /\ rpc = "idle"
    /\ pending = <<>>
    /\ rpc2 = "idle"
    /\ pending2 = <<>>
    /\ sendLog = <<>>
    /\ delivered = <<>>
    /\ lastRecv = NoRecv
    /\ dropped = <<>>

\* ------------------------------------------------------------------ Sender

\* Sender::send, lib.rs:36-47. The message is its length and an identity, the
\* number of the call. The tag that rides with the envelope records the
\* clock, the bandwidth and the Receiver's latency at the call; no action
\* reads it.
Send(len) ==
    /\ senderAlive
    /\ Len(sendLog) < MaxSends
    /\ LET msg == [id |-> Len(sendLog) + 1, len |-> len]
       IN  IF DelayPanics(bandwidth)
           THEN /\ sendLog' = Append(sendLog, [res |-> "Panic", len |-> len])
                /\ UNCHANGED <<chan, next_time>>
           ELSE LET delay == TransmissionDelay(bandwidth, len, rounding)
                    departure_time == DepartureTime(now, next_time, delay)
                    ok == receiverAlive
                    res == IF ok THEN "Ok" ELSE "LinkClosed"
                    tag == [at |-> now, bw |-> bandwidth, lat |-> latency]
                IN  /\ chan' = IF ok
                               THEN ChanSend(chan, [time |-> departure_time,
                                                    msg |-> msg, tag |-> tag])
                               ELSE chan
                    /\ next_time' = NextTimeAfterSend(ok, next_time, departure_time)
                    /\ sendLog' = Append(sendLog, [res |-> res, len |-> len])
    /\ UNCHANGED <<now, rounding, bandwidth, senderAlive>>
    /\ UNCHANGED recvVars

\* A with_bandwidth that builds its Sender anew, as channel() does.
SenderWithBandwidthReset(bw) == <<Some(bw), now>>

\* The fields <<bandwidth, next_time>> of the Sender that with_bandwidth
\* returns, lib.rs:50-53.
SenderWithBandwidth(bw) == <<Some(bw), next_time>>

WithBandwidth(bw) ==
    /\ senderAlive
    /\ bandwidth' = SenderWithBandwidth(bw)[1]
    /\ next_time' = SenderWithBandwidth(bw)[2]
    /\ UNCHANGED <<now, rounding, senderAlive, chan>>
    /\ UNCHANGED sendHist
    /\ UNCHANGED recvVars

\* Dropping the Sender closes the channel for the Receiver.
DropSender ==
    /\ senderAlive
    /\ senderAlive' = FALSE
    /\ UNCHANGED <<now, rounding, bandwidth, next_time, chan>>
    /\ UNCHANGED sendHist
    /\ UNCHANGED recvVars

\* ---------------------------------------------------------------- Receiver

\* recv returns Ok(msg), lib.rs:78.
Complete(p, waited) ==
    /\ rpc' = "idle"
    /\ pending' = <<>>
    /\ delivered' = Append(delivered, p.msg.id)
    /\ lastRecv' = [res |-> "Ok", waited |-> waited, closed |-> ~senderAlive]

\* A poll of recv that is at line 72: take the next envelope if there is one
\* and run on to the timer of line 77; fail if the channel is closed and
\* empty; suspend otherwise. lib.rs:72-78.
PollChan ==
    IF RecvFails(chan, senderAlive)
    THEN /\ rpc' = "idle"
         /\ lastRecv' = [res |-> "LinkClosed", waited |-> FALSE, closed |-> TRUE]
         /\ UNCHANGED <<chan, pending, delivered>>
    ELSE IF chan # <<>>
    THEN LET env == ChanRecv(chan)
             wake == ArrivalTime(env.time, latency)
             p == [time |-> env.time, msg |-> env.msg, tag |-> env.tag,
                   wake |-> wake]
         IN  /\ chan' = Tail(chan)
             /\ IF TimerReady(wake, now)
                THEN Complete(p, FALSE)
                ELSE /\ rpc' = "timer"
                     /\ pending' = <<p>>
                     /\ UNCHANGED <<delivered, lastRecv>>
    ELSE /\ rpc' = "chan"
         /\ UNCHANGED <<chan, pending, delivered, lastRecv>>

\* Receiver::recv is called and polled for the first time, lib.rs:71-72.
RecvCall ==
    /\ receiverAlive
    /\ rpc = "idle"
    /\ PollChan
    /\ UNCHANGED <<now, rounding, latency, receiverAlive, dropped>>
    /\ UNCHANGED secondCall
    /\ UNCHANGED sendHist
    /\ UNCHANGED senderVars

\* A channel that wakes a suspended recv when it is closed but not when an
\* envelope arrives.
RecvWakeChanOnClose ==
    /\ rpc = "chan"
    /\ ~senderAlive
    /\ PollChan
    /\ UNCHANGED <<now, rounding, latency, receiverAlive, dropped>>
    /\ UNCHANGED secondCall
    /\ UNCHANGED sendHist
    /\ UNCHANGED senderVars

\* The channel wakes a recv suspended at line 72: an envelope has arrived or
\* the channel was closed.
RecvWakeChan ==
    /\ rpc = "chan"
    /\ chan # <<>> \/ ~senderAlive
    /\ PollChan
    /\ UNCHANGED <<now, rounding, latency, receiverAlive, dropped>>
    /\ UNCHANGED secondCall
    /\ UNCHANGED sendHist
    /\ UNCHANGED senderVars

\* The timer wakes a recv suspended at line 77, lib.rs:77-78.
RecvWakeTimer ==
    /\ rpc = "timer"
    /\ TimerReady(pending[1].wake, now)
    /\ Complete(pending[1], TRUE)
    /\ UNCHANGED <<now, rounding, chan, latency, receiverAlive, dropped>>
    /\ UNCHANGED secondCall
    /\ UNCHANGED sendHist
    /\ UNCHANGED senderVars

\* A cancelled recv that hands the envelope it holds back to the channel.
RecvCancelRequeues ==
    /\ rpc \in {"chan", "timer"}
    /\ rpc' = "idle"
    /\ pending' = <<>>
    /\ chan' = [i \in 1..Len(pending) |->
                 [time |-> pending[i].time, msg |-> pending[i].msg,
                  tag |-> pending[i].tag]] \o chan
    /\ UNCHANGED <<now, rounding, latency, receiverAlive, delivered, lastRecv,
                   dropped>>
    /\ UNCHANGED secondCall
    /\ UNCHANGED sendHist
    /\ UNCHANGED senderVars

\* The caller drops the future of a suspended recv; what the future had
\* already taken from the channel goes with it.
RecvCancel ==
    /\ rpc \in {"chan", "timer"}
    /\ rpc' = "idle"
    /\ pending' = <<>>
    /\ dropped' = IF rpc = "timer" THEN Append(dropped, pending[1].msg.id) ELSE dropped
    /\ UNCHANGED <<now, rounding, chan, latency, receiverAlive, delivered, lastRecv>>
    /\ UNCHANGED secondCall
    /\ UNCHANGED sendHist
    /\ UNCHANGED senderVars

\* Receiver::with_latency, lib.rs:82-85. It takes the Receiver by value, so
\* no recv (which borrows it) is in flight.
WithLatency(l) ==
    /\ receiverAlive
    /\ rpc = "idle"
    /\ rpc2 = "idle"
    /\ latency' = Some(l)
    /\ UNCHANGED <<now, rounding, chan, receiverAlive, rpc, pending,
                   delivered, lastRecv, dropped>>
    /\ UNCHANGED secondCall
    /\ UNCHANGED sendHist
    /\ UNCHANGED senderVars

\* Dropping the Receiver (no recv borrows it) closes the channel for the Sender.
DropReceiver ==
    /\ receiverAlive
    /\ rpc = "idle"
    /\ rpc2 = "idle"
    /\ receiverAlive' = FALSE
    /\ UNCHANGED <<now, rounding, chan, latency, rpc, pending,
                   delivered, lastRecv, dropped>>
    /\ UNCHANGED secondCall
    /\ UNCHANGED sendHist
    /\ UNCHANGED senderVars

\* ------------------------------------------------------------------- clock

\* The monotonic clock advances by one tick, up to limit.
Tick(limit) ==
    /\ now < limit
    /\ now' = now + 1
    /\ UNCHANGED <<rounding, chan>>
    /\ UNCHANGED sendHist
    /\ UNCHANGED senderVars
    /\ UNCHANGED recvVars

Next ==
    \/ \E len \in Lens : Send(len)
    \/ \E bw \in Bandwidths : WithBandwidth(bw)
    \/ DropSender
    \/ RecvCall
    \/ RecvWakeChan
    \/ RecvWakeTimer
    \/ RecvCancel
    \/ \E l \in Latencies : WithLatency(l)
    \/ DropReceiver
    \/ Tick(MaxTime)

Spec == Init /\ [][Next]_vars

\* ------------------------------------------------------------------- burst
\* A burst: a link is created and configured, sends are issued at one instant
\* of the clock, and a receiver that is never late drains them. The clock
\* advances only before the first send or after the last one (the send
\* budget is used up or the Sender is gone), and only while the receiver has
\* no step to take.

BurstOver == sendLog = <<>> \/ Len(sendLog) = MaxSends \/ ~senderAlive

ReceiverCanStep ==
    \/ receiverAlive /\ rpc = "idle"
    \/ rpc = "chan" /\ (chan # <<>> \/ ~senderAlive)
    \/ rpc = "timer" /\ TimerReady(pending[1].wake, now)

BurstWithBandwidth(bw) == sendLog = <<>> /\ WithBandwidth(bw)

BurstWithLatency(l) == sendLog = <<>> /\ WithLatency(l)

BurstTick == BurstOver /\ ~ReceiverCanStep /\ Tick(BurstMaxTime)

BurstNext ==
    \/ \E len \in BurstLens : Send(len)
    \/ \E bw \in BurstBandwidths : BurstWithBandwidth(bw)
    \/ \E l \in BurstLatencies : BurstWithLatency(l)
    \/ DropSender
    \/ RecvCall
    \/ RecvWakeChan
    \/ RecvWakeTimer
    \/ BurstTick

BurstSpec == Init /\ [][BurstNext]_vars

\* ----------------------------------------------------------- overlapping recv

\* recv borrows the Receiver immutably (lib.rs:71), so a second call can be
\* started while a first is suspended. The second call runs the same code on
\* the same channel and latency, with locals of its own.

\* The second call returns Ok(msg), lib.rs:78.
Complete2(p, waited) ==
    /\ rpc2' = "idle"
    /\ pending2' = <<>>
    /\ delivered' = Append(delivered, p.msg.id)
    /\ lastRecv' = [res |-> "Ok", waited |-> waited, closed |-> ~senderAlive]

\* A poll of the second call that reads the head of the channel and leaves it
\* there.
PollChan2Peek ==
    IF RecvFails(chan, senderAlive)
    THEN /\ rpc2' = "idle"
         /\ lastRecv' = [res |-> "LinkClosed", waited |-> FALSE, closed |-> TRUE]
         /\ UNCHANGED <<chan, pending2, delivered>>
    ELSE IF chan # <<>>
    THEN LET env == ChanRecv(chan)
             wake == ArrivalTime(env.time, latency)
             p == [time |-> env.time, msg |-> env.msg, tag |-> env.tag,
                   wake |-> wake]
         IN  /\ chan' = chan
             /\ IF TimerReady(wake, now)
                THEN Complete2(p, FALSE)
                ELSE /\ rpc2' = "timer"
                     /\ pending2' = <<p>>
                     /\ UNCHANGED <<delivered, lastRecv>>
    ELSE /\ rpc2' = "chan"
         /\ UNCHANGED <<chan, pending2, delivered, lastRecv>>

\* A poll of the second call at line 72, lib.rs:72-78.
PollChan2 ==
    IF RecvFails(chan, senderAlive)
    THEN /\ rpc2' = "idle"
         /\ lastRecv' = [res |-> "LinkClosed", waited |-> FALSE, closed |-> TRUE]
         /\ UNCHANGED <<chan, pending2, delivered>>
    ELSE IF chan # <<>>
    THEN LET env == ChanRecv(chan)
             wake == ArrivalTime(env.time, latency)
             p == [time |-> env.time, msg |-> env.msg, tag |-> env.tag,
                   wake |-> wake]
         IN  /\ chan' = Tail(chan)
             /\ IF TimerReady(wake, now)
                THEN Complete2(p, FALSE)
                ELSE /\ rpc2' = "timer"
                     /\ pending2' = <<p>>
                     /\ UNCHANGED <<delivered, lastRecv>>
    ELSE /\ rpc2' = "chan"
         /\ UNCHANGED <<chan, pending2, delivered, lastRecv>>

\* Receiver::recv is called while another call is suspended, and polled for
\* the first time, lib.rs:71-72.
Recv2Call ==
    /\ receiverAlive
    /\ rpc # "idle"
    /\ rpc2 = "idle"
    /\ PollChan2
    /\ UNCHANGED <<now, rounding, latency, receiverAlive, dropped>>
    /\ UNCHANGED firstCall
    /\ UNCHANGED sendHist
    /\ UNCHANGED senderVars

\* The channel wakes the second call suspended at line 72.
Recv2WakeChan ==
    /\ rpc2 = "chan"
    /\ chan # <<>> \/ ~senderAlive
    /\ PollChan2
    /\ UNCHANGED <<now, rounding, latency, receiverAlive, dropped>>
    /\ UNCHANGED firstCall
    /\ UNCHANGED sendHist
    /\ UNCHANGED senderVars

\* The timer wakes the second call suspended at line 77, lib.rs:77-78.
Recv2WakeTimer ==
    /\ rpc2 = "timer"
    /\ TimerReady(pending2[1].wake, now)
    /\ Complete2(pending2[1], TRUE)
    /\ UNCHANGED <<now, rounding, chan, latency, receiverAlive, dropped>>
    /\ UNCHANGED firstCall
    /\ UNCHANGED sendHist
    /\ UNCHANGED senderVars

\* The bandwidths set under OverlapSpec.
OverlapBandwidths == {20}

\* The link with up to two recv calls in flight; no call is cancelled and the
\* Receiver is kept.
OverlapNext ==
    \/ \E len \in Lens : Send(len)
    \/ \E bw \in OverlapBandwidths : WithBandwidth(bw)
    \/ DropSender
    \/ RecvCall
    \/ RecvWakeChan
    \/ RecvWakeTimer
    \/ Recv2Call
    \/ Recv2WakeChan
    \/ Recv2WakeTimer
    \/ \E l \in Latencies : WithLatency(l)
    \/ Tick(MaxTime)

OverlapSpec == Init /\ [][OverlapNext]_vars

\* ---------------------------------------------------------------- liveness

\* The bandwidths set under LiveSpec: the claim is about those that are not 0.
LiveBandwidths == {20}

\* The last instant at which LiveSpec makes sends.
LiveSendUntil == 1

\* The longest transmission delay and the longest latency of the inputs.
LiveDelays ==
    {TransmissionDelay(Some(bw), len, mode) :
        bw \in LiveBandwidths, len \in Lens, mode \in Roundings}

LiveMaxDelay == CHOOSE d \in LiveDelays : \A e \in LiveDelays : e <= d

LiveMaxLatency == CHOOSE l \in Latencies : \A m \in Latencies : m <= l

\* Sends are made up to LiveSendUntil; the clock runs on until every envelope
\* sent by then has reached its arrival time.
LiveHorizon == LiveSendUntil + MaxSends * LiveMaxDelay + LiveMaxLatency

LiveSend(len) == now <= LiveSendUntil /\ Send(len)

LiveTick == Tick(LiveHorizon)

\* The link whose Receiver is kept and whose recv calls are never cancelled.
LiveNext ==
    \/ \E len \in Lens : LiveSend(len)
    \/ \E bw \in LiveBandwidths : WithBandwidth(bw)
    \/ DropSender
    \/ RecvCall
    \/ RecvWakeChan
    \/ RecvWakeTimer
    \/ \E l \in Latencies : WithLatency(l)
    \/ LiveTick

\* The clock keeps advancing, the Receiver's task keeps calling recv, and the
\* executor polls a recv again once the channel or its timer has woken it.
LiveFairness ==
    /\ WF_vars(LiveTick)
    /\ WF_vars(RecvCall)
    /\ WF_vars(RecvWakeChan)
    /\ WF_vars(RecvWakeTimer)

LiveSpec == Init /\ [][LiveNext]_vars /\ LiveFairness

\* ------------------------------------------------------- reading the state

\* The ids of the successful sends among the first n calls, in call order.
RECURSIVE OkIds(_)
OkIds(n) ==
    IF n = 0 THEN <<>>
    ELSE IF sendLog[n].res = "Ok" THEN Append(OkIds(n - 1), n)
    ELSE OkIds(n - 1)

\* The ids of the payloads a sequence of envelopes carries.
IdsOf(q) == [i \in 1..Len(q) |-> q[i].msg.id]

\* The payloads sent and not yet returned, oldest first.
InFlight == IdsOf(pending) \o IdsOf(chan)

\* A latency as a number of ticks.
LatencyTicks(lat) == IF lat = None THEN 0 ELSE lat[1]

\* This step is a send call, and its outcome.
SendStep == Len(sendLog') = Len(sendLog) + 1

SendRes == sendLog'[Len(sendLog')].res

\* This step takes an envelope from the channel.
DequeueStep == chan # <<>> /\ chan' = Tail(chan)

\* This step is a recv returning a payload.
DeliverStep == Len(delivered') = Len(delivered) + 1

\* The envelope a DeliverStep returns, with the instant its timer was set to.
Delivering ==
    IF rpc = "timer" THEN pending[1]
    ELSE [time |-> chan[1].time, msg |-> chan[1].msg, tag |-> chan[1].tag,
          wake |-> chan[1].time + LatencyTicks(latency)]

\* ------------------------------------------------------------------ claims

\* C1: as long as no recv is cancelled, the payloads returned by recv followed
\* by the payloads still held by the link are exactly the successfully sent
\* payloads in send order: what recv has returned is a prefix of what was
\* sent, with nothing reordered, duplicated or lost.
C1_FifoDelivery ==
    dropped = <<>> => delivered \o InFlight = OkIds(Len(sendLog))

\* Two payloads have been returned, none was cancelled, and the clock has
\* advanced.
C1_Witness ==
    /\ dropped = <<>>
    /\ Len(delivered) = 2
    /\ now > 0

\* C3: recv never returns a payload before the clock has reached the
\* envelope's scheduled time plus the latency in force when it was taken from
\* the channel; a recv that takes an envelope whose arrival time is already
\* reached returns in that same step, and otherwise sleeps until exactly that
\* arrival time.
C3_NoEarlyNoExtraWait ==
    [][ /\ DequeueStep =>
            LET arrival == chan[1].time + LatencyTicks(latency)
            IN  IF now >= arrival
                THEN DeliverStep /\ rpc' = "idle" /\ ~lastRecv'.waited
                ELSE ~DeliverStep /\ rpc' = "timer" /\ pending'[1].wake = arrival
        /\ DeliverStep =>
            /\ now >= Delivering.wake
            /\ Delivering.wake >= Delivering.time
            /\ delivered' = Append(delivered, Delivering.msg.id) ]_vars

\* A recv slept on its timer and then returned its payload.
C3_Witness ==
    /\ lastRecv.res = "Ok"
    /\ lastRecv.waited
    /\ latency # None

\* The envelope a successful SendStep enqueues, the delay it was given beyond
\* max(now, next_time), and its size.
Enqueued == chan'[Len(chan')]

EnqueuedDelay == Enqueued.time - (IF now >= next_time THEN now ELSE next_time)

\* d ticks are num/den seconds to the resolution of the clock: less than one
\* tick away from the quotient.
WithinOneTick(d, num, den) ==
    /\ d * den > num * TicksPerSec - den
    /\ d * den < num * TicksPerSec + den

\* C2 as stated: every successful send enqueues an envelope scheduled at
\* max(now, next_time) + transmission_delay, the delay being 0 with no
\* bandwidth and exactly size/bandwidth seconds otherwise, and leaves
\* next_time at that scheduled time.
C2_Original ==
    [][ SendStep /\ SendRes = "Ok" =>
            /\ chan' = Append(chan, Enqueued)
            /\ IF bandwidth = None
               THEN EnqueuedDelay = 0
               ELSE EnqueuedDelay * bandwidth[1] = Enqueued.msg.len * TicksPerSec
            /\ next_time' = Enqueued.time ]_vars

\* C2 as amended: every successful send enqueues an envelope scheduled at
\* max(now, next_time) + transmission_delay, the delay being 0 with no
\* bandwidth and otherwise size/bandwidth seconds as a Duration holds it, a
\* whole number of clock ticks less than one tick from the quotient, and
\* leaves next_time at that scheduled time.
C2_DepartureTime ==
    [][ SendStep /\ SendRes = "Ok" =>
            /\ chan' = Append(chan, Enqueued)
            /\ Enqueued.msg.len = sendLog'[Len(sendLog')].len
            /\ IF bandwidth = None
               THEN EnqueuedDelay = 0
               ELSE /\ bandwidth[1] > 0
                    /\ WithinOneTick(EnqueuedDelay, Enqueued.msg.len, bandwidth[1])
            /\ next_time' = Enqueued.time ]_vars

\* A send with a bandwidth set was queued behind an envelope that had not yet
\* departed: its schedule starts from next_time, not from the clock.
C2_Witness ==
    /\ Len(chan) = 2
    /\ chan[2].tag.bw # None
    /\ chan[2].msg.len > 0
    /\ chan[1].time > chan[2].tag.at
    /\ next_time = chan[2].time

\* C4 as stated: once the Receiver is gone, every send fails with the
\* link-closed error, enqueues nothing and leaves next_time and bandwidth as
\* they were.
C4_Original ==
    [][ SendStep /\ ~receiverAlive =>
            /\ SendRes = "LinkClosed"
            /\ chan' = chan
            /\ next_time' = next_time
            /\ bandwidth' = bandwidth ]_vars

\* C5: with the Sender gone, a recv that finds an envelope takes the oldest
\* one and returns it under the usual delay (C3), a recv fails with the
\* link-closed error only when the channel is empty and the Sender gone, no
\* recv goes to sleep on a closed and empty channel, and one that was asleep
\* when the channel closed can be woken.
C5_DrainThenClosed ==
    /\ [][ /\ (lastRecv' # lastRecv /\ lastRecv'.res = "LinkClosed") =>
                /\ chan = <<>>
                /\ pending = <<>>
                /\ ~senderAlive
                /\ UNCHANGED delivered
           /\ (~senderAlive /\ rpc # "timer" /\ (DeliverStep \/ rpc' = "timer")) =>
                /\ DequeueStep
                /\ IF DeliverStep
                   THEN delivered' = Append(delivered, chan[1].msg.id)
                   ELSE /\ pending'[1].msg = chan[1].msg
                        /\ pending'[1].wake = chan[1].time + LatencyTicks(latency)
           /\ (~senderAlive /\ DeliverStep) =>
                /\ now >= Delivering.wake
                /\ lastRecv'.res = "Ok"
           /\ (rpc # "chan" /\ rpc' = "chan") =>
                /\ senderAlive
                /\ chan = <<>> ]_vars
    /\ []((rpc = "chan" /\ ~senderAlive) => ENABLED RecvWakeChan)

\* Two payloads were sent, the Sender was dropped, and the second payload
\* was returned after that, after a sleep on the timer, leaving the channel
\* empty.
C5_Witness ==
    /\ ~senderAlive
    /\ lastRecv.res = "Ok"
    /\ lastRecv.closed
    /\ lastRecv.waited
    /\ Len(delivered) = 2
    /\ delivered = OkIds(Len(sendLog))

\* C6 as stated: the Sender never holds a bandwidth of zero.
C6_Original == bandwidth # Some(0)

\* Two envelopes next to each other in the channel come from consecutive
\* sends issued at one instant under one bandwidth.
SameInstantPair(i) ==
    /\ chan[i + 1].msg.id = chan[i].msg.id + 1
    /\ chan[i + 1].tag.at = chan[i].tag.at
    /\ chan[i + 1].tag.bw = chan[i].tag.bw
    /\ chan[i].tag.bw # None

\* C7 as stated: of two consecutive sends of sizes s1 and s2 issued at one
\* instant under bandwidth B, the second is scheduled at least s1/B after the
\* first.
C7_Original ==
    \A i \in 1..(Len(chan) - 1) :
        SameInstantPair(i) =>
            (chan[i + 1].time - chan[i].time) * chan[i].tag.bw[1]
                >= chan[i].msg.len * TicksPerSec

\* C7 as amended: of two consecutive sends of sizes s1 and s2 issued at one
\* instant under bandwidth B, the second is scheduled after the first by the
\* transmission delay of the second, s2/B to the resolution of the clock;
\* both are scheduled no earlier than the instant of the sends.
C7_Serialization ==
    \A i \in 1..(Len(chan) - 1) :
        SameInstantPair(i) =>
            /\ WithinOneTick(chan[i + 1].time - chan[i].time,
                             chan[i + 1].msg.len, chan[i].tag.bw[1])
            /\ chan[i].time >= chan[i].tag.at

\* A large payload and then an empty one were sent at one instant under one
\* bandwidth.
C7_Witness ==
    /\ Len(chan) = 2
    /\ SameInstantPair(1)
    /\ chan[1].msg.len > chan[2].msg.len
    /\ chan[2].time = chan[1].time

\* The time from the send of the payload a DeliverStep returns to now, less
\* the latency that was added to its scheduled time.
ElapsedLessLatency == (now - Delivering.tag.at) - (Delivering.wake - Delivering.time)

\* C8 as stated: for every payload recv returns, the time from its send to
\* the return is at least size/bandwidth + latency, with the bandwidth of the
\* send and the latency in force when the envelope was taken from the channel.
C8_Original ==
    [][ DeliverStep =>
            IF Delivering.tag.bw = None
            THEN ElapsedLessLatency >= 0
            ELSE ElapsedLessLatency * Delivering.tag.bw[1]
                    >= Delivering.msg.len * TicksPerSec ]_vars

\* C8 as amended: for every payload recv returns, the time from its send to
\* the return is more than size/bandwidth + latency less one clock tick, with
\* the bandwidth of the send and the latency in force when the envelope was
\* taken from the channel.
C8_ElapsedAtLeast ==
    [][ /\ DequeueStep => (IF DeliverStep THEN Delivering.wake ELSE pending'[1].wake)
                              = chan[1].time + LatencyTicks(latency)
        /\ DeliverStep =>
            IF Delivering.tag.bw = None
            THEN ElapsedLessLatency >= 0
            ELSE (ElapsedLessLatency + 1) * Delivering.tag.bw[1]
                    > Delivering.msg.len * TicksPerSec ]_vars

\* A payload of three bytes sent under a bandwidth was returned by a recv that
\* slept on its timer with a latency set.
C8_Witness ==
    /\ lastRecv.res = "Ok"
    /\ lastRecv.waited
    /\ latency # None
    /\ sendLog[delivered[Len(delivered)]].len > 0
    /\ bandwidth \notin {None, Some(0)}

\* C10: a step that changes the Sender's bandwidth changes neither next_time
\* nor any envelope in the channel or held by a recv, and the next successful
\* send is delayed according to the new bandwidth.
C10_BandwidthFrame ==
    [][ /\ bandwidth' # bandwidth =>
            /\ next_time' = next_time
            /\ chan' = chan
            /\ pending' = pending
        /\ SendStep /\ SendRes = "Ok" =>
            /\ Enqueued.tag.bw = bandwidth
            /\ bandwidth # None =>
                    WithinOneTick(EnqueuedDelay, Enqueued.msg.len, bandwidth[1]) ]_vars

\* The bandwidth was changed while an envelope sent under another bandwidth
\* was queued and the link was busy.
C10_Witness ==
    /\ chan # <<>>
    /\ bandwidth # None
    /\ chan[1].tag.bw # None
    /\ chan[1].tag.bw # bandwidth
    /\ next_time > now

\* Bytes of the successful sends among the first n calls.
RECURSIVE BytesUpTo(_)
BytesUpTo(n) ==
    IF n = 0 THEN 0
    ELSE BytesUpTo(n - 1) + (IF sendLog[n].res = "Ok" THEN sendLog[n].len ELSE 0)

\* len/bw seconds is a whole number of clock ticks.
WholeTicks(len, bw) == (len * TicksPerSec) % bw = 0

\* In a burst sent under bandwidth B: the payload a DeliverStep returns is
\* the i-th sent, the bytes sent up to and including it, the instant t of the
\* sends, and the latency L added to it.
BurstIndex == Len(OkIds(Delivering.msg.id))

BurstBytes == BytesUpTo(Delivering.msg.id)

BurstAt == Delivering.tag.at

BurstLatency == Delivering.wake - Delivering.time

BurstB == Delivering.tag.bw[1]

\* C9 as stated: in a burst of sends of sizes s1..sk issued at instant t on a
\* fresh link of bandwidth B and latency L, drained by a receiver that is
\* never late, the i-th recv returns exactly at t + (s1+...+si)/B + L.
C9_Original ==
    [][ DeliverStep /\ Delivering.tag.bw # None =>
            (now - BurstAt - BurstLatency) * BurstB = BurstBytes * TicksPerSec ]_vars

\* C9 as amended: in such a burst the i-th recv returns exactly at its
\* arrival time, which is t + d1 + ... + di + L with dj the Duration of sj/B,
\* a whole number of clock ticks: less than i ticks from
\* t + (s1+...+si)/B + L, and exactly that instant when every sj/B is a whole
\* number of ticks, as in the two scenarios (1000 bytes at 1000 bytes/sec and
\* 100 ms return at 1.1 s; two of 500 bytes at 1000 bytes/sec return at 0.5 s
\* and 1.0 s).
C9_BurstCompletion ==
    [][ DeliverStep /\ Delivering.tag.bw # None =>
            LET ticksB == (now - BurstAt - BurstLatency) * BurstB
                exact == BurstBytes * TicksPerSec
                id == Delivering.msg.id
            IN  /\ now = Delivering.wake
                /\ BurstLatency = LatencyTicks(latency)
                /\ BurstIndex = id
                /\ ticksB > exact - BurstIndex * BurstB
                /\ ticksB < exact + BurstIndex * BurstB
                /\ (\A j \in 1..id : WholeTicks(sendLog[j].len, BurstB)) =>
                        ticksB = exact
                /\ ( /\ BurstB = 1000 /\ BurstLatency * 10 = TicksPerSec
                     /\ id = 1 /\ Delivering.msg.len = 1000 /\ BurstAt = 0 ) =>
                        now * 10 = 11 * TicksPerSec
                /\ ( /\ BurstB = 1000 /\ BurstLatency = 0 /\ BurstAt = 0
                     /\ WholeTicks(500, 1000)
                     /\ \A j \in 1..id : sendLog[j].len = 500 ) =>
                        now * 2 = id * TicksPerSec ]_vars

\* Scenario B has run: two payloads of 500 bytes sent at t = 0 on a link of
\* 1000 bytes/sec and no latency, the second returned at 1.0 s after a sleep
\* on the timer.
C9_Witness ==
    /\ delivered = <<1, 2>>
    /\ sendLog[1].len = 500
    /\ sendLog[2].len = 500
    /\ bandwidth = Some(1000)
    /\ LatencyTicks(latency) = 0
    /\ lastRecv.res = "Ok"
    /\ lastRecv.waited
    /\ now = TicksPerSec

\* C11: the arrival time of an envelope is its scheduled time plus the
\* latency the Receiver has in the step that takes it from the channel,
\* whatever the latency was when it was sent; while a recv sleeps on its
\* timer the arrival time it holds does not change, and it returns no earlier
\* than that arrival time.
C11_LatencyAtDequeue ==
    [][ /\ DequeueStep =>
            (IF DeliverStep THEN now >= chan[1].time + LatencyTicks(latency)
             ELSE /\ rpc' = "timer"
                  /\ pending'[1].wake = chan[1].time + LatencyTicks(latency)
                  /\ pending'[1].wake > now)
        /\ (rpc = "timer" /\ rpc' = "timer") => pending' = pending
        /\ rpc = "timer" => latency' = latency
        /\ (rpc = "timer" /\ DeliverStep) => now >= pending[1].wake ]_vars

\* An envelope sent while no latency was set is held by a recv that took it
\* after the latency was set, and sleeps until its scheduled time plus that
\* latency.
C11_Witness ==
    /\ rpc = "timer"
    /\ pending[1].tag.lat = None
    /\ latency = Some(1)
    /\ pending[1].wake = pending[1].time + 1

\* This step drops a suspended recv: the call ends without a result.
CancelStep ==
    /\ rpc \in {"chan", "timer"}
    /\ rpc' = "idle"
    /\ ~DeliverStep
    /\ lastRecv' = lastRecv

\* C12: dropping a recv that waits for an envelope changes neither the channel
\* nor what has been returned or lost, and the next recv returns the head of
\* the channel; dropping a recv that sleeps on its timer leaves the channel
\* as it is and loses exactly the envelope the call held: no recv returns it
\* afterwards and the next recv returns the next envelope of the channel.
C12_Cancellation ==
    /\ [][ /\ (CancelStep /\ rpc = "chan") =>
                chan' = chan /\ dropped' = dropped /\ delivered' = delivered
           /\ (CancelStep /\ rpc = "timer") =>
                /\ chan' = chan
                /\ delivered' = delivered
                /\ dropped' = Append(dropped, pending[1].msg.id)
           /\ (DeliverStep /\ rpc # "timer") =>
                delivered' = Append(delivered, chan[1].msg.id)
           /\ DeliverStep =>
                \A i \in 1..Len(dropped) : dropped[i] # Delivering.msg.id ]_vars
    /\ [](\A i \in 1..Len(dropped) :
            /\ \A j \in 1..Len(delivered) : delivered[j] # dropped[i]
            /\ \A j \in 1..Len(InFlight) : InFlight[j] # dropped[i])

\* A recv holding the first envelope was dropped during its timer wait, and
\* the next recv returned the second envelope.
C12_Witness ==
    /\ dropped = <<1>>
    /\ delivered = <<2>>

\* C13 as stated: send never suspends: a send ends in the one step that
\* starts it, with success or the link-closed error, however many envelopes
\* are queued, whatever the Receiver is doing and wherever the clock stands.
C13_Original ==
    [][ SendStep =>
            /\ SendRes \in {"Ok", "LinkClosed"}
            /\ SendRes = "Ok" <=> receiverAlive
            /\ now' = now
            /\ UNCHANGED recvVars ]_vars

\* The scheduled time this send would give a payload of length len.
DepartureFor(len) ==
    (IF now >= next_time THEN now ELSE next_time)
        + TransmissionDelay(bandwidth, len, rounding)

C15_ZeroConfig ==
    /\ (bandwidth = None /\ latency = None /\ next_time = now /\ chan = <<>>)
    /\ [](bandwidth = None => next_time <= now)
    /\ [][ /\ (SendStep /\ SendRes = "Ok" /\ bandwidth = None) =>
                Enqueued.time = now /\ next_time' = now
           /\ (DequeueStep /\ rpc # "timer" /\ chan[1].tag.bw = None
                           /\ latency = None) =>
                /\ DeliverStep
                /\ rpc' = "idle"
                /\ lastRecv' = [res |-> "Ok", waited |-> FALSE,
                                closed |-> ~senderAlive] ]_vars

\* With nothing configured, an envelope sent after the clock had advanced is
\* scheduled at the instant of its send, and the envelope before it was
\* returned by a recv that did not sleep.
C15_Witness ==
    /\ bandwidth = None
    /\ latency = None
    /\ delivered = <<1>>
    /\ ~lastRecv.waited
    /\ Len(chan) = 1
    /\ chan[1].tag.at > 0
    /\ chan[1].time = chan[1].tag.at

\* C16: next_time never decreases: no step lowers it, whether a successful
\* send, a failed send, a change of bandwidth or an advance of the clock, and
\* only a successful send moves it.
C16_NextTimeMonotonic ==
    [][ /\ next_time' >= next_time
        /\ next_time' # next_time => (SendStep /\ SendRes = "Ok") ]_vars

\* A send failed after a successful one, the clock has advanced, and
\* next_time is still ahead of it.
C16_Witness ==
    /\ Len(sendLog) = 2
    /\ sendLog[1].res = "Ok"
    /\ sendLog[2].res = "LinkClosed"
    /\ next_time > now
    /\ now > 0

\* C17: in every reachable state the scheduled times of the envelopes in the
\* channel are non-decreasing from head to tail, and none is earlier than
\* that of an envelope a sleeping recv has already taken, whatever changes of
\* bandwidth came between the sends.
C17_ScheduledTimesSorted ==
    /\ \A i \in 1..(Len(chan) - 1) : chan[i].time <= chan[i + 1].time
    /\ \A i \in 1..Len(chan) : \A j \in 1..Len(pending) :
            pending[j].time <= chan[i].time
    /\ \A i \in 1..Len(chan) : chan[i].time <= next_time

\* Two envelopes with payloads are queued, the second sent after the
\* bandwidth was raised.
C17_Witness ==
    /\ Len(chan) = 2
    /\ chan[1].tag.bw = Some(20)
    /\ chan[2].tag.bw = Some(40)
    /\ chan[1].msg.len > 0
    /\ chan[2].msg.len > 0
    /\ chan[1].time <= chan[2].time

\* C18 as stated: no envelope is scheduled before the clock of its send, and
\* a send made when the clock has reached next_time is scheduled exactly
\* size/bandwidth seconds after the clock of the send.
C18_Original ==
    [][ (SendStep /\ SendRes = "Ok") =>
            /\ Enqueued.time >= now
            /\ (now >= next_time /\ bandwidth # None) =>
                 (Enqueued.time - now) * bandwidth[1]
                    = Enqueued.msg.len * TicksPerSec ]_vars

\* C18 as amended: no envelope is scheduled before the clock of its send, and
\* a send made when the clock has reached next_time is scheduled at the clock
\* of the send plus its delay, size/bandwidth seconds to within a clock tick
\* (nothing with no bandwidth), however far next_time lies behind the clock.
C18_NoIdleCredit ==
    [][ (SendStep /\ SendRes = "Ok") =>
            /\ Enqueued.time >= now
            /\ Enqueued.tag.at = now
            /\ (now >= next_time /\ bandwidth = None) => Enqueued.time = now
            /\ (now >= next_time /\ bandwidth # None) =>
                 WithinOneTick(Enqueued.time - now, Enqueued.msg.len,
                               bandwidth[1]) ]_vars

\* After the link lay idle for two ticks or more past next_time, a payload was
\* sent with a bandwidth set and is scheduled later than the clock of its
\* send.
C18_Witness ==
    /\ Len(chan) = 1
    /\ chan[1].msg.id = 2
    /\ chan[1].tag.bw # None
    /\ chan[1].msg.len > 0
    /\ chan[1].tag.at >= 2
    /\ delivered = <<1>>
    /\ chan[1].time > chan[1].tag.at

\* The ids of the payloads the two calls in flight hold between them.
HeldIds == {pending[i].msg.id : i \in 1..Len(pending)}
              \cup {pending2[i].msg.id : i \in 1..Len(pending2)}

\* C19 as stated: with two recv calls in flight, every envelope taken from
\* the channel is returned by exactly one call and the calls return their
\* payloads in the order in which they were sent.
C19_Original ==
    /\ Len(delivered) + Cardinality(HeldIds) + Len(chan) = Len(OkIds(Len(sendLog)))
    /\ \A i \in 1..Len(delivered) : \A j \in 1..Len(delivered) :
            i < j => delivered[i] < delivered[j]

\* The ids of the payloads returned, held by a call or still in the channel.
AccountedIds ==
    {delivered[i] : i \in 1..Len(delivered)}
        \cup HeldIds \cup {chan[i].msg.id : i \in 1..Len(chan)}

\* The payload this DeliverStep returns.
Returned == delivered'[Len(delivered')]

\* C19 as amended: with two recv calls in flight, every successfully sent
\* envelope is in exactly one place: returned once, held by one call, or in
\* the channel; envelopes leave the channel in send order; a call returns the
\* envelope it took itself, no earlier than its arrival time, and leaves the
\* other call's envelope alone. The order in which two calls whose timers are
\* both ready return is not fixed.
C19_OverlapExactlyOnce ==
    /\ [](/\ Len(delivered) + Cardinality(HeldIds) + Len(chan)
                = Len(OkIds(Len(sendLog)))
          /\ AccountedIds = {OkIds(Len(sendLog))[i] :
                                i \in 1..Len(OkIds(Len(sendLog)))}
          /\ \A i \in 1..Len(chan) :
                /\ \A id \in HeldIds : id < chan[i].msg.id
                /\ \A j \in 1..Len(delivered) : delivered[j] < chan[i].msg.id)
    /\ [][ DeliverStep =>
            \/ /\ DequeueStep
               /\ Returned = chan[1].msg.id
               /\ now >= chan[1].time + LatencyTicks(latency)
               /\ UNCHANGED <<pending, pending2>>
            \/ /\ rpc = "timer"
               /\ Returned = pending[1].msg.id
               /\ now >= pending[1].wake
               /\ rpc' = "idle"
               /\ pending' = <<>>
               /\ UNCHANGED <<chan, rpc2, pending2>>
            \/ /\ rpc2 = "timer"
               /\ Returned = pending2[1].msg.id
               /\ now >= pending2[1].wake
               /\ rpc2' = "idle"
               /\ pending2' = <<>>
               /\ UNCHANGED <<chan, rpc, pending>> ]_vars

\* Two calls sleep on their timers at once, each holding an envelope of its
\* own, and both envelopes have the same arrival time, which the clock has
\* reached.
C19_Witness ==
    /\ rpc = "timer"
    /\ rpc2 = "timer"
    /\ pending[1].msg.id # pending2[1].msg.id
    /\ pending[1].wake = pending2[1].wake
    /\ now >= pending[1].wake

\* The payload with this id is in the channel or held by a sleeping recv.
Undelivered(id) ==
    \/ \E i \in 1..Len(chan) : chan[i].msg.id = id
    \/ \E i \in 1..Len(pending) : pending[i].msg.id = id

WasDelivered(id) == \E i \in 1..Len(delivered) : delivered[i] = id

\* C20: when the clock keeps advancing and the Receiver is kept and keeps
\* calling recv without cancelling, every envelope that was successfully sent
\* is eventually returned by a recv: none stays in the channel for ever and no
\* recv sleeps on its timer for ever.
C20_EventualDelivery ==
    \A id \in 1..MaxSends : Undelivered(id) ~> WasDelivered(id)

\* Everything sent has been returned, the last payload by a recv that slept
\* on its timer until after the last instant at which sends were made.
C20_Witness ==
    /\ Len(delivered) >= 2
    /\ delivered = OkIds(Len(sendLog))
    /\ lastRecv.res = "Ok"
    /\ lastRecv.waited
    /\ now > LiveSendUntil
====
